---------------------------- MODULE Spec2Model ----------------------------
(***************************************************************************)
(* A model of domainChecker.py: the domain normalizer, the availability    *)
(* classifier (check_domain_availability), the cost estimator              *)
(* (get_minimum_cost), the expander, the batch loop and the presenter of   *)
(* main.                                                                   *)
(*                                                                         *)
(* Python strings are sequences of one-character strings, so that          *)
(* lower(), strip(), startswith(), endswith(), split(), slicing, the `in`  *)
(* substring test, int() and the f-string padding are computed, not        *)
(* assumed.                                                                *)
(***************************************************************************)
EXTENDS Integers, Sequences, FiniteSets, TLC

VARIABLES
    \* ---- one run of main ----
    pc,                \* position of main
    args,              \* args.domains
    verbose,           \* args.verbose
    domains_to_check,  \* the expanded candidate list
    idx,               \* number of loop iterations started (position of the for loop)
    lookups,           \* the domains whois.whois has been called with, in call order
    answer,            \* what the whois.whois call of this iteration did
    pending,           \* number of whois.whois calls that have not returned yet
    postfix,           \* progress_bar.set_postfix_str
    all_results,       \* all_results
    available_domains, \* available_domains
    taken_domains,     \* taken_domains
    stdout,            \* the lines printed, in print order
    \* ---- one call of a function on its own ----
    u_pc,              \* position of the caller
    u_domain,          \* the domain argument
    u_outcome,         \* what whois.whois does for this call
    u_flag,            \* the is_available argument of get_minimum_cost
    u_verdict,         \* what check_domain_availability returned
    u_cost,            \* what get_minimum_cost returned
    u_norm,            \* the cleaned domain
    u_norm2,           \* the cleaned domain, cleaned again
    \* ---- the batch and the presenter run on a candidate list ----
    p_pc,              \* position of the caller
    p_cands,           \* the candidate list
    p_registry,        \* what whois.whois does for each domain, the same at every call
    p_rows             \* the table rows printed

vars == <<pc, args, verbose, domains_to_check, idx, lookups, answer, pending,
          postfix, all_results, available_domains, taken_domains, stdout,
          u_pc, u_domain, u_outcome, u_flag, u_verdict, u_cost, u_norm, u_norm2,
          p_pc, p_cands, p_registry, p_rows>>

mainVars == <<pc, args, verbose, domains_to_check, idx, lookups, answer, pending,
              postfix, all_results, available_domains, taken_domains, stdout>>

unitVars == <<u_pc, u_domain, u_outcome, u_flag, u_verdict, u_cost, u_norm, u_norm2>>

permVars == <<p_pc, p_cands, p_registry, p_rows>>

-----------------------------------------------------------------------------
(* Python str, as a sequence of characters *)

\* The characters in code point order: str comparison is by code point.
Ascii ==
    <<"\t", "\n", " ", "$", "-", ".", "/",
      "0", "1", "2", "3", "4", "5", "6", "7", "8", "9", ":",
      "A", "B", "C", "D", "E", "F", "G", "H", "I", "J", "K", "L", "M",
      "N", "O", "P", "Q", "R", "S", "T", "U", "V", "W", "X", "Y", "Z",
      "a", "b", "c", "d", "e", "f", "g", "h", "i", "j", "k", "l", "m",
      "n", "o", "p", "q", "r", "s", "t", "u", "v", "w", "x", "y", "z",
      "|">>

\* The rank of each character
OrdOf == [c \in {Ascii[i] : i \in 1..Len(Ascii)} |-> CHOOSE i \in 1..Len(Ascii) : Ascii[i] = c]

Ord(c) == OrdOf[c]

UpperChars ==
    <<"A", "B", "C", "D", "E", "F", "G", "H", "I", "J", "K", "L", "M",
      "N", "O", "P", "Q", "R", "S", "T", "U", "V", "W", "X", "Y", "Z">>

LowerChars ==
    <<"a", "b", "c", "d", "e", "f", "g", "h", "i", "j", "k", "l", "m",
      "n", "o", "p", "q", "r", "s", "t", "u", "v", "w", "x", "y", "z">>

Digits == <<"0", "1", "2", "3", "4", "5", "6", "7", "8", "9">>

Whitespace == {" ", "\t", "\n"}

\* The lowercase letter of each uppercase letter
LowerOf ==
    [u \in {UpperChars[i] : i \in 1..Len(UpperChars)} |->
        LowerChars[CHOOSE i \in 1..Len(UpperChars) : UpperChars[i] = u]]

LowerChar(c) == IF c \in DOMAIN LowerOf THEN LowerOf[c] ELSE c

\* str.lower()
Lower(s) == [i \in 1..Len(s) |-> LowerChar(s[i])]

\* s[n:]
Drop(s, n) == IF n >= Len(s) THEN <<>> ELSE SubSeq(s, n + 1, Len(s))

\* s[:n]
Take(s, n) == IF n >= Len(s) THEN s ELSE SubSeq(s, 1, n)

\* str.strip()
RECURSIVE LStrip(_)
LStrip(s) == IF s # <<>> /\ s[1] \in Whitespace THEN LStrip(Tail(s)) ELSE s

RECURSIVE RStrip(_)
RStrip(s) ==
    IF s # <<>> /\ s[Len(s)] \in Whitespace THEN RStrip(SubSeq(s, 1, Len(s) - 1)) ELSE s

Strip(s) == RStrip(LStrip(s))

\* str.startswith(p)
StartsWith(s, p) == Len(s) >= Len(p) /\ SubSeq(s, 1, Len(p)) = p

\* str.endswith(p)
EndsWith(s, p) == Len(s) >= Len(p) /\ SubSeq(s, Len(s) - Len(p) + 1, Len(s)) = p

\* sub in s
Contains(s, sub) ==
    \E i \in 0..(Len(s) - Len(sub)) : SubSeq(s, i + 1, i + Len(sub)) = sub

\* s.split(sep, 1)[1], for an s that holds sep
AfterFirst(s, sep) ==
    LET i == CHOOSE k \in 0..(Len(s) - Len(sep)) :
                 /\ SubSeq(s, k + 1, k + Len(sep)) = sep
                 /\ \A j \in 0..(k - 1) : SubSeq(s, j + 1, j + Len(sep)) # sep
    IN  Drop(s, i + Len(sep))

\* s.replace(c, '') for a one-character c
RECURSIVE RemoveChar(_, _)
RemoveChar(s, c) ==
    IF s = <<>> THEN <<>>
    ELSE IF s[1] = c THEN RemoveChar(Tail(s), c)
    ELSE <<s[1]>> \o RemoveChar(Tail(s), c)

\* sep.join(list)
RECURSIVE Join(_, _)
Join(sep, list) ==
    IF list = <<>> THEN <<>>
    ELSE IF Len(list) = 1 THEN list[1]
    ELSE list[1] \o sep \o Join(sep, Tail(list))

\* str(n) for an int n >= 0
RECURSIVE IntToStr(_)
IntToStr(n) ==
    IF n < 10 THEN <<Digits[n + 1]>>
    ELSE IntToStr(n \div 10) \o <<Digits[(n % 10) + 1]>>

IsDigit(c) == \E i \in 1..Len(Digits) : Digits[i] = c

DigitValue(c) == (CHOOSE i \in 1..Len(Digits) : Digits[i] = c) - 1

\* int(s) raises ValueError unless s is a numeral
IsNumeral(s) == s # <<>> /\ \A i \in 1..Len(s) : IsDigit(s[i])

RECURSIVE ParseInt(_)
ParseInt(s) ==
    IF s = <<>> THEN 0
    ELSE ParseInt(SubSeq(s, 1, Len(s) - 1)) * 10 + DigitValue(s[Len(s)])

\* a < b for two str
RECURSIVE StrLess(_, _)
StrLess(a, b) ==
    IF b = <<>> THEN FALSE
    ELSE IF a = <<>> THEN TRUE
    ELSE IF a[1] # b[1] THEN Ord(a[1]) < Ord(b[1])
    ELSE StrLess(Tail(a), Tail(b))

\* f"{s:<w}"
PadRight(s, w) == s \o [i \in 1..(IF Len(s) < w THEN w - Len(s) ELSE 0) |-> " "]

-----------------------------------------------------------------------------
(* The string literals of the program *)

S_empty == <<>>
S_ai == <<".", "a", "i">>
S_com == <<".", "c", "o", "m">>
S_io == <<".", "i", "o">>
S_cost_ai == <<"$", "2", "0", "0">>
S_cost_com == <<"$", "1", "0">>
S_cost_io == <<"$", "5", "0">>
S_http == <<"h", "t", "t", "p", ":", "/", "/">>
S_https == <<"h", "t", "t", "p", "s", ":", "/", "/">>
S_slashes == <<"/", "/">>
S_www == <<"w", "w", "w", ".">>
S_no_match == <<"n", "o", " ", "m", "a", "t", "c", "h">>
S_not_found == <<"n", "o", "t", " ", "f", "o", "u", "n", "d">>
S_no_entries_found == <<"n", "o", " ", "e", "n", "t", "r", "i", "e", "s", " ", "f", "o", "u", "n", "d">>
S_None == <<"N", "o", "n", "e">>

\* active_statuses
active_statuses ==
    << <<"o", "k">>,
       <<"a", "c", "t", "i", "v", "e">>,
       <<"c", "l", "i", "e", "n", "t", "t", "r", "a", "n", "s", "f", "e", "r", "p", "r", "o", "h", "i", "b", "i", "t", "e", "d">>,
       <<"c", "l", "i", "e", "n", "t", "d", "e", "l", "e", "t", "e", "p", "r", "o", "h", "i", "b", "i", "t", "e", "d">> >>

-----------------------------------------------------------------------------
(* Python values of the fields of a whois record: None, a str, a datetime  *)
(* (of which only the year is read) or a list of such values               *)

PyNone == [t |-> "none", s |-> <<>>, year |-> 0, items |-> <<>>]
PyStr(s) == [t |-> "str", s |-> s, year |-> 0, items |-> <<>>]
PyDate(y) == [t |-> "date", s |-> <<>>, year |-> y, items |-> <<>>]
PyList(items) == [t |-> "list", s |-> <<>>, year |-> 0, items |-> items]

\* bool(v)
Truthy(v) ==
    CASE v.t = "none" -> FALSE
      [] v.t = "str"  -> v.s # <<>>
      [] v.t = "date" -> TRUE
      [] v.t = "list" -> v.items # <<>>

\* isinstance(v, list)
IsList(v) == v.t = "list"

\* v.year raises AttributeError unless v is a datetime
HasYear(v) == v.t = "date"

\* str(v); str(datetime) is "YYYY-MM-DD HH:MM:SS", the dates here are 1 January 00:00:00
ToStr(v) ==
    CASE v.t = "none" -> S_None
      [] v.t = "str"  -> v.s
      [] v.t = "date" ->
            [i \in 1..(IF v.year < 1000 THEN 4 - Len(IntToStr(v.year)) ELSE 0) |-> "0"]
            \o IntToStr(v.year)
            \o <<"-", "0", "1", "-", "0", "1", " ", "0", "0", ":", "0", "0", ":", "0", "0">>

\* What one whois.whois call does: it returns None ("null"), returns a record
\* ("record", with info), raises whois.parser.PywhoisError or raises another
\* exception (both with the message str(e)).
NoInfo ==
    [status |-> PyNone, registrar |-> PyNone,
     creation_date |-> PyNone, expiration_date |-> PyNone]

ReturnsNone == [kind |-> "null", msg |-> <<>>, info |-> NoInfo]
ReturnsRecord(info) == [kind |-> "record", msg |-> <<>>, info |-> info]
RaisesPywhoisError(msg) == [kind |-> "PywhoisError", msg |-> msg, info |-> NoInfo]
RaisesException(msg) == [kind |-> "Exception", msg |-> msg, info |-> NoInfo]

\* No call has returned in this iteration
NoAnswer == [kind |-> "none", msg |-> <<>>, info |-> NoInfo]

-----------------------------------------------------------------------------
(* get_minimum_cost *)

\* A cost estimator that forgets the availability test
get_minimum_cost_any(domain, is_available) ==
    IF EndsWith(domain, S_ai) THEN S_cost_ai
    ELSE IF EndsWith(domain, S_com) THEN S_cost_com
    ELSE IF EndsWith(domain, S_io) THEN S_cost_io
    ELSE S_empty

get_minimum_cost(domain, is_available) ==
    IF ~is_available THEN S_empty
    ELSE IF EndsWith(domain, S_ai) THEN S_cost_ai
    ELSE IF EndsWith(domain, S_com) THEN S_cost_com
    ELSE IF EndsWith(domain, S_io) THEN S_cost_io
    ELSE S_empty

-----------------------------------------------------------------------------
(* check_domain_availability *)

\* A normalizer that drops www. before the protocol
NormalizeWwwFirst(domain) ==
    LET d1 == Strip(Lower(domain))
        d2 == IF StartsWith(d1, S_www) THEN Drop(d1, 4) ELSE d1
    IN  IF StartsWith(d2, S_http) \/ StartsWith(d2, S_https)
        THEN AfterFirst(d2, S_slashes)
        ELSE d2

\* Clean the domain (remove http/https and www if present)
Normalize(domain) ==
    LET d1 == Strip(Lower(domain))
        d2 == IF StartsWith(d1, S_http) \/ StartsWith(d1, S_https)
              THEN AfterFirst(d1, S_slashes)
              ELSE d1
    IN  IF StartsWith(d2, S_www) THEN Drop(d2, 4) ELSE d2

\* A year extraction that reads the last element of a list
CreationYearLast(info) ==
    IF Truthy(info.creation_date)
    THEN LET creation_date ==
                 IF IsList(info.creation_date)
                 THEN info.creation_date.items[Len(info.creation_date.items)]
                 ELSE info.creation_date
         IN  IF Truthy(creation_date)
             THEN IF HasYear(creation_date)
                  THEN IntToStr(creation_date.year)
                  ELSE IF Len(ToStr(creation_date)) >= 4
                       THEN Take(ToStr(creation_date), 4)
                       ELSE S_empty
             ELSE S_empty
    ELSE S_empty

\* Extract creation date/year if available
CreationYear(info) ==
    IF Truthy(info.creation_date)
    THEN LET creation_date ==
                 IF IsList(info.creation_date)
                 THEN (IF Truthy(info.creation_date)
                       THEN info.creation_date.items[1]
                       ELSE PyNone)
                 ELSE info.creation_date
         IN  IF Truthy(creation_date)
             THEN IF HasYear(creation_date)
                  THEN IntToStr(creation_date.year)
                  ELSE IF Len(ToStr(creation_date)) >= 4
                       THEN Take(ToStr(creation_date), 4)
                       ELSE S_empty
             ELSE S_empty
    ELSE S_empty

\* status_list
StatusList(status) ==
    IF IsList(status)
    THEN [i \in 1..Len(status.items) |-> Lower(ToStr(status.items[i]))]
    ELSE <<Lower(ToStr(status))>>

\* any(status in ' '.join(status_list) for status in active_statuses)
HasActiveStatus(status) ==
    \E i \in 1..Len(active_statuses) :
        Contains(Join(<<" ">>, StatusList(status)), active_statuses[i])

\* 'no match' in error_msg or 'not found' in error_msg or 'no entries found' in error_msg
IsNotFoundMessage(msg) ==
    LET error_msg == Lower(msg)
    IN  \/ Contains(error_msg, S_no_match)
        \/ Contains(error_msg, S_not_found)
        \/ Contains(error_msg, S_no_entries_found)

Verdict(domain, is_available, year_registered) ==
    [domain |-> domain,
     is_available |-> is_available,
     minimum_cost |-> get_minimum_cost(domain, is_available),
     year_registered |-> year_registered]

\* A classifier in which a status that matches nothing decides "available"
ClassifyRecordNoFallThrough(domain, info) ==
    IF Truthy(info.status)
    THEN (IF HasActiveStatus(info.status)
          THEN Verdict(domain, FALSE, CreationYear(info))
          ELSE Verdict(domain, TRUE, S_empty))
    ELSE IF Truthy(info.registrar)
    THEN Verdict(domain, FALSE, CreationYear(info))
    ELSE IF Truthy(info.creation_date)
    THEN Verdict(domain, FALSE, CreationYear(info))
    ELSE IF Truthy(info.expiration_date)
    THEN Verdict(domain, FALSE, CreationYear(info))
    ELSE Verdict(domain, TRUE, S_empty)

\* The body of the try, for a whois.whois call that returned domain_info
ClassifyRecord(domain, info) ==
    IF Truthy(info.status) /\ HasActiveStatus(info.status)
    THEN Verdict(domain, FALSE, CreationYear(info))
    ELSE IF Truthy(info.registrar)
    THEN Verdict(domain, FALSE, CreationYear(info))
    ELSE IF Truthy(info.creation_date)
    THEN Verdict(domain, FALSE, CreationYear(info))
    ELSE IF Truthy(info.expiration_date)
    THEN Verdict(domain, FALSE, CreationYear(info))
    ELSE Verdict(domain, TRUE, S_empty)

\* except whois.parser.PywhoisError as e
OnPywhoisError(domain, msg) ==
    IF IsNotFoundMessage(msg)
    THEN Verdict(domain, TRUE, S_empty)
    ELSE Verdict(domain, FALSE, S_empty)

\* A handler that fails open
OnExceptionFailOpen(domain, msg) == Verdict(domain, TRUE, S_empty)

\* except Exception as e
OnException(domain, msg) == Verdict(domain, FALSE, S_empty)

check_domain_availability(domain, outcome) ==
    LET d == Normalize(domain)
    IN  CASE outcome.kind = "null" -> Verdict(d, TRUE, S_empty)
          [] outcome.kind = "record" -> ClassifyRecord(d, outcome.info)
          [] outcome.kind = "PywhoisError" -> OnPywhoisError(d, outcome.msg)
          [] outcome.kind = "Exception" -> OnException(d, outcome.msg)

-----------------------------------------------------------------------------
(* main: the expander, sort_key, the sort and format_result *)

\* An expander that appends the siblings after all the given domains
RECURSIVE SiblingsOf(_)
SiblingsOf(domains) ==
    IF domains = <<>> THEN <<>>
    ELSE LET domain == Head(domains)
             base_name == SubSeq(domain, 1, Len(domain) - 4)
         IN  (IF EndsWith(domain, S_com)
              THEN <<base_name \o S_ai, base_name \o S_io>>
              ELSE <<>>)
             \o SiblingsOf(Tail(domains))

ExpandDomainsAtEnd(domains) == domains \o SiblingsOf(domains)

\* Expand .com domains to include .ai and .io versions
RECURSIVE ExpandDomains(_)
ExpandDomains(domains) ==
    IF domains = <<>> THEN <<>>
    ELSE LET domain == Head(domains)
             base_name == SubSeq(domain, 1, Len(domain) - 4)
         IN  (IF EndsWith(domain, S_com)
              THEN <<domain, base_name \o S_ai, base_name \o S_io>>
              ELSE <<domain>>)
             \o ExpandDomains(Tail(domains))

\* price = 999: taken domains, unpriced domains and parsing errors sort last
FallbackPrice == 999

\* A price that is parsed with its currency sign, which int() rejects
SortPriceNoStrip(result) ==
    IF result.is_available /\ result.minimum_cost # <<>>
    THEN IF IsNumeral(result.minimum_cost)
         THEN ParseInt(result.minimum_cost)
         ELSE FallbackPrice
    ELSE FallbackPrice

\* price of sort_key
SortPrice(result) ==
    IF result.is_available /\ result.minimum_cost # <<>>
    THEN LET digits == RemoveChar(result.minimum_cost, "$")
         IN  IF IsNumeral(digits) THEN ParseInt(digits) ELSE FallbackPrice
    ELSE FallbackPrice

\* A key without the domain name
sort_key_no_domain(result) ==
    <<IF result.is_available THEN 0 ELSE 1, SortPrice(result), <<>>>>

sort_key(result) ==
    <<IF result.is_available THEN 0 ELSE 1, SortPrice(result), Lower(result.domain)>>

\* k1 < k2 for two keys (tuples compare item by item)
KeyLess(k1, k2) ==
    \/ k1[1] < k2[1]
    \/ k1[1] = k2[1] /\ k1[2] < k2[2]
    \/ k1[1] = k2[1] /\ k1[2] = k2[2] /\ StrLess(k1[3], k2[3])

\* list.sort is stable: an item goes before the first item whose key is greater
InsertByKey(sorted, x) ==
    LET later == {i \in 1..Len(sorted) : KeyLess(sort_key(x), sort_key(sorted[i]))}
        at == IF later = {} THEN Len(sorted) + 1
              ELSE CHOOSE i \in later : \A j \in later : i <= j
    IN  SubSeq(sorted, 1, at - 1) \o <<x>> \o SubSeq(sorted, at, Len(sorted))

\* all_results.sort(key=sort_key)
RECURSIVE SortResults(_)
SortResults(results) ==
    IF results = <<>> THEN <<>>
    ELSE InsertByKey(SortResults(SubSeq(results, 1, Len(results) - 1)),
                     results[Len(results)])

\* The two emoji are one character each
CheckMark == "U+2705"
CrossMark == "U+274C"
Esc == "U+001B"

S_AVAILABLE == <<CheckMark>> \o <<" ", "A", "V", "A", "I", "L", "A", "B", "L", "E">>
S_TAKEN == <<CrossMark>> \o <<" ", "T", "A", "K", "E", "N">>
S_bar == <<" ", "|", " ">>

format_result(result) ==
    LET status == IF result.is_available THEN S_AVAILABLE ELSE S_TAKEN
        cost_display == IF result.minimum_cost # <<>> THEN result.minimum_cost ELSE S_empty
    IN  PadRight(result.domain, 40) \o S_bar \o PadRight(status, 12) \o S_bar
        \o PadRight(cost_display, 12)

\* available_results
AvailableResults(results) == SelectSeq(results, LAMBDA r : r.is_available)

Line(kind, text) == [kind |-> kind, text |-> text]

Repeat(c, n) == [i \in 1..n |-> c]

HeaderLines ==
    << Line("title", <<"D", "o", "m", "a", "i", "n", " ", "A", "v", "a", "i", "l", "a", "b", "i", "l", "i", "t", "y", " ", "C", "h", "e", "c", "k", "e", "r">>),
       Line("rule", Repeat("=", 80)),
       Line("columns", PadRight(<<"D", "o", "m", "a", "i", "n">>, 40) \o S_bar
                       \o PadRight(<<"S", "t", "a", "t", "u", "s">>, 12) \o S_bar
                       \o PadRight(<<"M", "i", "n", "i", "m", "u", "m", " ", "C", "o", "s", "t">>, 12)),
       Line("rule", Repeat("-", 80)) >>

CheckingLine(n) ==
    Line("checking", <<"C", "h", "e", "c", "k", "i", "n", "g", " ">> \o IntToStr(n) \o <<" ", "d", "o", "m", "a", "i", "n", "s", ".", ".", ".">>)

\* "\033[A\033[K", printed with end=""
EraseLine == Line("erase", <<Esc, "[", "A", Esc, "[", "K">>)

SummaryLine(provided, checked, available) ==
    Line("summary",
         <<"S", "u", "m", "m", "a", "r", "y", ":", " ">> \o IntToStr(provided) \o <<" ", "d", "o", "m", "a", "i", "n", "s", " ", "p", "r", "o", "v", "i", "d", "e", "d", ",", " ">>
         \o IntToStr(checked) \o <<" ", "c", "h", "e", "c", "k", "e", "d", ",", " ">>
         \o IntToStr(available) \o <<" ", "a", "v", "a", "i", "l", "a", "b", "l", "e">>)

VerboseLines(available, taken) ==
    (IF available # <<>>
     THEN <<Line("verbose", <<"\n", "A", "v", "a", "i", "l", "a", "b", "l", "e", " ", "d", "o", "m", "a", "i", "n", "s", ":", " ">> \o Join(<<",", " ">>, available))>>
     ELSE <<>>)
    \o
    (IF taken # <<>>
     THEN <<Line("verbose", <<"T", "a", "k", "e", "n", " ", "d", "o", "m", "a", "i", "n", "s", ":", " ">> \o Join(<<",", " ">>, taken))>>
     ELSE <<>>)

-----------------------------------------------------------------------------
(* The inputs of a run of main *)

\* The most positional arguments of a run
MaxArgs == 2

\* The domains given on the command line
ArgDomains ==
    { <<"a", ".", "c", "o", "m">>,
      <<"B", ".", "i", "o">>,
      <<"c", ".", "n", "e", "t">> }

RECURSIVE SeqsUpTo(_, _)
SeqsUpTo(S, n) ==
    IF n = 0 THEN {<<>>}
    ELSE LET shorter == SeqsUpTo(S, n - 1)
         IN  shorter \cup {Append(q, x) : q \in {r \in shorter : Len(r) = n - 1}, x \in S}

\* nargs='+': at least one domain
ArgLists == {a \in SeqsUpTo(ArgDomains, MaxArgs) : a # <<>>}

\* A registered domain's record
TakenInfo ==
    [status |-> PyList(<<PyStr(<<"c", "l", "i", "e", "n", "t", "T", "r", "a", "n", "s", "f", "e", "r", "P", "r", "o", "h", "i", "b", "i", "t", "e", "d">>)>>),
     registrar |-> PyStr(<<"A", "c", "m", "e">>),
     creation_date |-> PyDate(1999),
     expiration_date |-> PyDate(2030)]

\* What whois.whois does in a batch: a record, None, a not-found failure, a generic failure
BatchOutcomes ==
    { ReturnsRecord(TakenInfo),
      ReturnsRecord(NoInfo),
      ReturnsNone,
      RaisesPywhoisError(<<"N", "o", " ", "m", "a", "t", "c", "h", " ", "f", "o", "r", " ", "d", "o", "m", "a", "i", "n">>),
      RaisesPywhoisError(<<"C", "o", "n", "n", "e", "c", "t", "i", "o", "n", " ", "r", "e", "s", "e", "t">>),
      RaisesException(<<"t", "i", "m", "e", "d", " ", "o", "u", "t">>) }

\* No verdict yet
NoVerdict ==
    [domain |-> <<>>, is_available |-> FALSE, minimum_cost |-> <<>>, year_registered |-> <<>>]

IdleUnit ==
    /\ u_pc = "idle"
    /\ u_domain = <<>>
    /\ u_outcome = ReturnsNone
    /\ u_flag = FALSE
    /\ u_verdict = NoVerdict
    /\ u_cost = <<>>
    /\ u_norm = <<>>
    /\ u_norm2 = <<>>

IdlePerm ==
    /\ p_pc = "idle"
    /\ p_cands = <<>>
    /\ p_registry = <<>>
    /\ p_rows = <<>>

IdleMain ==
    /\ pc = "idle"
    /\ args = <<>>
    /\ verbose = FALSE
    /\ domains_to_check = <<>>
    /\ idx = 0
    /\ lookups = <<>>
    /\ answer = NoAnswer
    /\ pending = 0
    /\ postfix = <<>>
    /\ all_results = <<>>
    /\ available_domains = <<>>
    /\ taken_domains = <<>>
    /\ stdout = <<>>

-----------------------------------------------------------------------------
(* main, step by step *)

\* args = parser.parse_args(); the three lists start empty
Init ==
    /\ pc = "start"
    /\ args \in ArgLists
    /\ verbose \in BOOLEAN
    /\ domains_to_check = <<>>
    /\ idx = 0
    /\ lookups = <<>>
    /\ answer = NoAnswer
    /\ pending = 0
    /\ postfix = <<>>
    /\ all_results = <<>>
    /\ available_domains = <<>>
    /\ taken_domains = <<>>
    /\ stdout = <<>>
    /\ IdleUnit
    /\ IdlePerm

\* The four header prints
PrintHeader ==
    /\ pc = "start"
    /\ stdout' = stdout \o HeaderLines
    /\ pc' = "expand"
    /\ UNCHANGED <<args, verbose, domains_to_check, idx, lookups, answer, pending,
                   postfix, all_results, available_domains, taken_domains>>
    /\ UNCHANGED <<unitVars, permVars>>

\* The expansion loop and print(f"Checking {len(domains_to_check)} domains...")
Expand ==
    /\ pc = "expand"
    /\ domains_to_check' = ExpandDomains(args)
    /\ stdout' = Append(stdout, CheckingLine(Len(ExpandDomains(args))))
    /\ pc' = "loop"
    /\ UNCHANGED <<args, verbose, idx, lookups, answer, pending,
                   postfix, all_results, available_domains, taken_domains>>
    /\ UNCHANGED <<unitVars, permVars>>

\* for domain in progress_bar: the postfix is set, the domain is cleaned and
\* whois.whois is called with it
IssueLookup ==
    /\ pc = "loop"
    /\ idx < Len(domains_to_check)
    /\ idx' = idx + 1
    /\ postfix' = domains_to_check[idx + 1]
    /\ lookups' = Append(lookups, Normalize(domains_to_check[idx + 1]))
    /\ pending' = pending + 1
    /\ answer' = NoAnswer
    /\ pc' = "whois"
    /\ UNCHANGED <<args, verbose, domains_to_check,
                   all_results, available_domains, taken_domains, stdout>>
    /\ UNCHANGED <<unitVars, permVars>>

\* A loop that prints the row of an available domain as soon as its verdict is in
ResolveLookupPrinting ==
    /\ pc = "whois"
    /\ \E outcome \in BatchOutcomes :
          LET result == check_domain_availability(domains_to_check[idx], outcome)
          IN  /\ answer' = outcome
              /\ all_results' = Append(all_results, result)
              /\ available_domains' =
                     IF result.is_available
                     THEN Append(available_domains, result.domain)
                     ELSE available_domains
              /\ taken_domains' =
                     IF result.is_available
                     THEN taken_domains
                     ELSE Append(taken_domains, result.domain)
              /\ stdout' =
                     IF result.is_available
                     THEN Append(stdout, Line("row", format_result(result)))
                     ELSE stdout
    /\ pending' = pending - 1
    /\ pc' = "loop"
    /\ UNCHANGED <<args, verbose, domains_to_check, idx, lookups, postfix>>
    /\ UNCHANGED <<unitVars, permVars>>

\* whois.whois returns or raises; check_domain_availability returns its tuple,
\* which main appends to all_results and to one of the two name lists
ResolveLookup ==
    /\ pc = "whois"
    /\ \E outcome \in BatchOutcomes :
          LET result == check_domain_availability(domains_to_check[idx], outcome)
          IN  /\ answer' = outcome
              /\ all_results' = Append(all_results, result)
              /\ available_domains' =
                     IF result.is_available
                     THEN Append(available_domains, result.domain)
                     ELSE available_domains
              /\ taken_domains' =
                     IF result.is_available
                     THEN taken_domains
                     ELSE Append(taken_domains, result.domain)
    /\ pending' = pending - 1
    /\ pc' = "loop"
    /\ UNCHANGED <<args, verbose, domains_to_check, idx, lookups, postfix, stdout>>
    /\ UNCHANGED <<unitVars, permVars>>

\* The loop is over: progress_bar.close() and the two erasing prints
CloseProgress ==
    /\ pc = "loop"
    /\ idx >= Len(domains_to_check)
    /\ postfix' = <<>>
    /\ answer' = NoAnswer
    /\ stdout' = stdout \o <<EraseLine, EraseLine>>
    /\ pc' = "sort"
    /\ UNCHANGED <<args, verbose, domains_to_check, idx, lookups, pending,
                   all_results, available_domains, taken_domains>>
    /\ UNCHANGED <<unitVars, permVars>>

\* all_results.sort(key=sort_key)
Sort ==
    /\ pc = "sort"
    /\ all_results' = SortResults(all_results)
    /\ pc' = "print"
    /\ UNCHANGED <<args, verbose, domains_to_check, idx, lookups, answer, pending,
                   postfix, available_domains, taken_domains, stdout>>
    /\ UNCHANGED <<unitVars, permVars>>

\* A table of all the results
TableRowsAll(results) ==
    [i \in 1..Len(results) |-> Line("row", format_result(results[i]))]

\* The rows printed for available_results
TableRows(results) ==
    LET available_results == AvailableResults(results)
    IN  [i \in 1..Len(available_results) |-> Line("row", format_result(available_results[i]))]

\* The table, the rule and the summary
PrintTable ==
    /\ pc = "print"
    /\ stdout' = stdout
                 \o TableRows(all_results)
                 \o <<Line("rule", Repeat("-", 80)),
                      SummaryLine(Len(args), Len(domains_to_check), Len(available_domains))>>
    /\ pc' = "verbose"
    /\ UNCHANGED <<args, verbose, domains_to_check, idx, lookups, answer, pending,
                   postfix, all_results, available_domains, taken_domains>>
    /\ UNCHANGED <<unitVars, permVars>>

\* if args.verbose
PrintVerbose ==
    /\ pc = "verbose"
    /\ stdout' = IF verbose
                 THEN stdout \o VerboseLines(available_domains, taken_domains)
                 ELSE stdout
    /\ pc' = "done"
    /\ UNCHANGED <<args, verbose, domains_to_check, idx, lookups, answer, pending,
                   postfix, all_results, available_domains, taken_domains>>
    /\ UNCHANGED <<unitVars, permVars>>

Next ==
    \/ PrintHeader
    \/ Expand
    \/ IssueLookup
    \/ ResolveLookup
    \/ CloseProgress
    \/ Sort
    \/ PrintTable
    \/ PrintVerbose

Spec == Init /\ [][Next]_vars

-----------------------------------------------------------------------------
(* check_domain_availability and get_minimum_cost, called on their own *)

CheckDomains ==
    { <<"a", ".", "c", "o", "m">>,
      <<"a", ".", "a", "i">>,
      <<"a", ".", "i", "o">>,
      <<"c", ".", "n", "e", "t">>,
      <<"x", ".", "C", "O", "M">>,
      <<" ", "H", "T", "T", "P", "S", ":", "/", "/", "W", "W", "W", ".", "B", ".", "I", "O", " ">> }

StatusValues ==
    { PyNone,
      PyStr(<<>>),
      PyList(<<>>),
      PyList(<<PyStr(<<"c", "l", "i", "e", "n", "t", "T", "r", "a", "n", "s", "f", "e", "r", "P", "r", "o", "h", "i", "b", "i", "t", "e", "d">>)>>),
      PyStr(<<"A", "C", "T", "I", "V", "E">>),
      PyList(<<PyStr(<<"p", "e", "n", "d", "i", "n", "g", "D", "e", "l", "e", "t", "e">>)>>),
      PyList(<<PyStr(<<"o">>), PyStr(<<"k">>)>>),
      PyList(<<PyStr(<<"p", "e", "n", "d", "i", "n", "g", "D", "e", "l", "e", "t", "e">>), PyStr(<<"c", "l", "i", "e", "n", "t", "D", "e", "l", "e", "t", "e", "P", "r", "o", "h", "i", "b", "i", "t", "e", "d">>)>>) }

RegistrarValues == { PyNone, PyStr(<<>>), PyStr(<<"A", "c", "m", "e">>) }

CreationValues ==
    { PyNone,
      PyStr(<<>>),
      PyList(<<>>),
      PyDate(1999),
      PyDate(987),
      PyStr(<<"2", "0", "0", "1", "-", "0", "5", "-", "0", "1">>),
      PyStr(<<"n", "/", "a">>),
      PyList(<<PyDate(2024), PyDate(1999)>>),
      PyList(<<PyStr(<<"1", "9", "9", "5", "-", "0", "8", "-", "1", "4">>), PyDate(2024)>>),
      PyList(<<PyNone, PyDate(1999)>>),
      PyList(<<PyStr(<<>>)>>) }

ExpirationValues == { PyNone, PyDate(2030), PyList(<<>>) }

Infos ==
    [status : StatusValues, registrar : RegistrarValues,
     creation_date : CreationValues, expiration_date : ExpirationValues]

Outcomes ==
    {ReturnsRecord(info) : info \in Infos}
    \cup
    { ReturnsNone,
      RaisesPywhoisError(<<"N", "o", " ", "m", "a", "t", "c", "h", " ", "f", "o", "r", " ", "d", "o", "m", "a", "i", "n">>),
      RaisesPywhoisError(<<"D", "o", "m", "a", "i", "n", " ", "N", "O", "T", " ", "F", "O", "U", "N", "D">>),
      RaisesPywhoisError(<<"N", "o", " ", "e", "n", "t", "r", "i", "e", "s", " ", "f", "o", "u", "n", "d">>),
      RaisesPywhoisError(<<"C", "o", "n", "n", "e", "c", "t", "i", "o", "n", " ", "r", "e", "s", "e", "t">>),
      RaisesPywhoisError(<<>>),
      RaisesException(<<"H", "o", "s", "t", " ", "n", "o", "t", " ", "f", "o", "u", "n", "d">>),
      RaisesException(<<"t", "i", "m", "e", "d", " ", "o", "u", "t">>) }

InitCheck ==
    /\ u_pc = "check"
    /\ u_domain \in CheckDomains
    /\ u_outcome \in Outcomes
    /\ u_flag \in BOOLEAN
    /\ u_verdict = NoVerdict
    /\ u_cost = <<>>
    /\ u_norm = <<>>
    /\ u_norm2 = <<>>
    /\ IdleMain
    /\ IdlePerm

\* check_domain_availability(u_domain), the whois.whois call doing u_outcome
CallCheck ==
    /\ u_pc = "check"
    /\ u_verdict' = check_domain_availability(u_domain, u_outcome)
    /\ u_pc' = "cost"
    /\ UNCHANGED <<u_domain, u_outcome, u_flag, u_cost, u_norm, u_norm2>>
    /\ UNCHANGED <<mainVars, permVars>>

\* get_minimum_cost(u_domain, u_flag)
CallCost ==
    /\ u_pc = "cost"
    /\ u_cost' = get_minimum_cost(u_domain, u_flag)
    /\ u_pc' = "done"
    /\ UNCHANGED <<u_domain, u_outcome, u_flag, u_verdict, u_norm, u_norm2>>
    /\ UNCHANGED <<mainVars, permVars>>

NextCheck == CallCheck \/ CallCost

SpecCheck == InitCheck /\ [][NextCheck]_vars

-----------------------------------------------------------------------------
(* The normalizer, applied to a string and to its own result *)

\* The most pieces an input is made of
MaxTokens == 3

Tokens ==
    { <<"h", "t", "t", "p", ":", "/", "/">>,
      <<"H", "T", "T", "P", "S", ":", "/", "/">>,
      <<"w", "w", "w", ".">>,
      <<"W", "W", "W", ".">>,
      <<" ">>,
      <<"/", "/">>,
      <<"w">>,
      <<"a", ".", "c", "o", "m">> }

RECURSIVE Flatten(_)
Flatten(pieces) == IF pieces = <<>> THEN <<>> ELSE Head(pieces) \o Flatten(Tail(pieces))

NormInputs == {Flatten(pieces) : pieces \in SeqsUpTo(Tokens, MaxTokens)}

InitNormalize ==
    /\ u_pc = "normalize"
    /\ u_domain \in NormInputs
    /\ u_outcome = ReturnsNone
    /\ u_flag = FALSE
    /\ u_verdict = NoVerdict
    /\ u_cost = <<>>
    /\ u_norm = <<>>
    /\ u_norm2 = <<>>
    /\ IdleMain
    /\ IdlePerm

CallNormalize ==
    /\ u_pc = "normalize"
    /\ u_norm' = Normalize(u_domain)
    /\ u_pc' = "again"
    /\ UNCHANGED <<u_domain, u_outcome, u_flag, u_verdict, u_cost, u_norm2>>
    /\ UNCHANGED <<mainVars, permVars>>

CallNormalizeAgain ==
    /\ u_pc = "again"
    /\ u_norm2' = Normalize(u_norm)
    /\ u_pc' = "done"
    /\ UNCHANGED <<u_domain, u_outcome, u_flag, u_verdict, u_cost, u_norm>>
    /\ UNCHANGED <<mainVars, permVars>>

NextNormalize == CallNormalize \/ CallNormalizeAgain

SpecNormalize == InitNormalize /\ [][NextNormalize]_vars

-----------------------------------------------------------------------------
(* The batch loop, the sort and the table of main, run on a candidate list *)
(* with a collaborator that answers the same for the same domain           *)

\* The longest candidate list
MaxPermLen == 3

PermDomains ==
    { <<"a", ".", "i", "o">>,
      <<"B", ".", "i", "o">>,
      <<"a", ".", "c", "o", "m">>,
      <<"c", ".", "n", "e", "t">> }

PermOutcomes ==
    { ReturnsNone,
      ReturnsRecord(TakenInfo),
      RaisesException(<<"t", "i", "m", "e", "d", " ", "o", "u", "t">>) }

Range(f) == {f[i] : i \in DOMAIN f}

\* The loop of main: one verdict per candidate, in candidate order
CollectResults(cands, reg) ==
    [i \in 1..Len(cands) |-> check_domain_availability(cands[i], reg[Normalize(cands[i])])]

\* The rows main prints for a candidate list
RenderBatch(cands, reg) == TableRows(SortResults(CollectResults(cands, reg)))

InitPerm ==
    /\ p_pc = "run"
    /\ p_cands \in SeqsUpTo(PermDomains, MaxPermLen)
    /\ p_registry \in [{Normalize(c) : c \in Range(p_cands)} -> PermOutcomes]
    /\ p_rows = <<>>
    /\ IdleMain
    /\ IdleUnit

RunBatch ==
    /\ p_pc = "run"
    /\ p_rows' = RenderBatch(p_cands, p_registry)
    /\ p_pc' = "done"
    /\ UNCHANGED <<p_cands, p_registry>>
    /\ UNCHANGED <<mainVars, unitVars>>

NextPerm == RunBatch

SpecPerm == InitPerm /\ [][NextPerm]_vars

-----------------------------------------------------------------------------
(* The classifier's cascade, as the specification states it *)

\* The lowercased status tokens, joined by a space
C1_JoinedStatus(status) ==
    Join(<<" ">>,
         IF status.t = "list"
         THEN [i \in 1..Len(status.items) |-> Lower(ToStr(status.items[i]))]
         ELSE <<Lower(ToStr(status))>>)

\* Step 4: a non-empty status that holds one of the four tokens
C1_StatusDecides(info) ==
    /\ Truthy(info.status)
    /\ \E w \in { <<"o", "k">>,
                 <<"a", "c", "t", "i", "v", "e">>,
                 <<"c", "l", "i", "e", "n", "t", "t", "r", "a", "n", "s", "f", "e", "r", "p", "r", "o", "h", "i", "b", "i", "t", "e", "d">>,
                 <<"c", "l", "i", "e", "n", "t", "d", "e", "l", "e", "t", "e", "p", "r", "o", "h", "i", "b", "i", "t", "e", "d">> } :
           Contains(C1_JoinedStatus(info.status), w)

\* The lowercased message holds 'no match', 'not found' or 'no entries found'
C1_SaysNotFound(msg) ==
    \E w \in { <<"n", "o", " ", "m", "a", "t", "c", "h">>,
              <<"n", "o", "t", " ", "f", "o", "u", "n", "d">>,
              <<"n", "o", " ", "e", "n", "t", "r", "i", "e", "s", " ", "f", "o", "u", "n", "d">> } :
        Contains(Lower(msg), w)

\* The step of the cascade that decides a lookup outcome, when the outcomes in
\* notFoundKinds are the lookup failures that step 2 reads the message of
C1_Step(outcome, notFoundKinds) ==
    IF outcome.kind = "null" THEN 1
    ELSE IF outcome.kind \in notFoundKinds /\ C1_SaysNotFound(outcome.msg) THEN 2
    ELSE IF outcome.kind \in {"PywhoisError", "Exception"} THEN 3
    ELSE IF C1_StatusDecides(outcome.info) THEN 4
    ELSE IF Truthy(outcome.info.registrar) THEN 5
    ELSE IF Truthy(outcome.info.creation_date) THEN 6
    ELSE IF Truthy(outcome.info.expiration_date) THEN 7
    ELSE 8

C1_Holds(notFoundKinds) ==
    u_pc # "check" =>
        LET step == C1_Step(u_outcome, notFoundKinds)
        IN  /\ u_verdict.is_available = (step \in {1, 2, 8})
            /\ step \in {1, 2, 3, 8} => u_verdict.year_registered = <<>>

\* C1, as stated: check_domain_availability returns the availability of the
\* cascade null -> available; a lookup failure (of any kind) whose message says
\* not found -> available; any other lookup failure -> not available; a matching
\* status, a registrar, a creation date, an expiration date -> not available;
\* otherwise available; with an empty creation year in cases 1, 2, 3 and 8.
C1_CascadeAnyFailure == C1_Holds({"PywhoisError", "Exception"})

\* C1, amended: the same cascade, where step 2 applies only to a failure raised
\* as whois.parser.PywhoisError; a failure of any other exception type is not
\* available whatever its message says (step 3).
C1_CascadePywhoisError == C1_Holds({"PywhoisError"})

\* A failure of another type whose message says not found, classified not available
C1_Witness ==
    /\ u_pc = "done"
    /\ u_outcome.kind = "Exception"
    /\ C1_SaysNotFound(u_outcome.msg)
    /\ ~u_verdict.is_available
    /\ u_verdict.year_registered = <<>>

-----------------------------------------------------------------------------
(* The cost estimator, as the specification states it *)

C6_Cost(domain, is_available) ==
    IF ~is_available THEN <<>>
    ELSE IF EndsWith(domain, <<".", "a", "i">>) THEN <<"$", "2", "0", "0">>
    ELSE IF EndsWith(domain, <<".", "c", "o", "m">>) THEN <<"$", "1", "0">>
    ELSE IF EndsWith(domain, <<".", "i", "o">>) THEN <<"$", "5", "0">>
    ELSE <<>>

\* C6: get_minimum_cost returns "$200" for .ai, "$10" for .com, "$50" for .io and
\* "" for any other suffix when available, and "" when not available; every
\* verdict of check_domain_availability that is not available has an empty cost.
C6_CostEstimator ==
    /\ u_pc = "done" => u_cost = C6_Cost(u_domain, u_flag)
    /\ u_pc # "check" =>
          /\ u_verdict.minimum_cost = C6_Cost(u_verdict.domain, u_verdict.is_available)
          /\ ~u_verdict.is_available => u_verdict.minimum_cost = <<>>

\* A priced suffix asked as not available, beside a verdict that is not available
C6_Witness ==
    /\ u_pc = "done"
    /\ EndsWith(u_domain, S_ai)
    /\ ~u_flag
    /\ u_cost = <<>>
    /\ ~u_verdict.is_available
    /\ EndsWith(u_verdict.domain, S_ai)

-----------------------------------------------------------------------------
(* The creation year, as the specification states it *)

\* The value the year is read from: the first element of a list, else the value
C10_Value(creation_date) ==
    IF creation_date.t = "list"
    THEN (IF creation_date.items = <<>> THEN PyNone ELSE creation_date.items[1])
    ELSE creation_date

\* No creation date (a null value) gives the empty year; a structured date its
\* year; any other value the first 4 characters of its string form, if it has 4
C10_Year(info) ==
    LET v == C10_Value(info.creation_date)
    IN  IF v.t = "none" THEN <<>>
        ELSE IF v.t = "date" THEN IntToStr(v.year)
        ELSE IF Len(ToStr(v)) >= 4 THEN SubSeq(ToStr(v), 1, 4)
        ELSE <<>>

\* C10: a record classified not available carries the creation year of the
\* extraction rule (first element of a list; the year of a structured date; else
\* the first 4 characters of the string form when it has at least 4; else empty).
C10_CreationYear ==
    (u_pc # "check" /\ u_outcome.kind = "record" /\ ~u_verdict.is_available)
        => u_verdict.year_registered = C10_Year(u_outcome.info)

\* A list whose first element is a date-like string, read by its first 4 characters
C10_Witness ==
    /\ u_pc = "done"
    /\ u_outcome.kind = "record"
    /\ ~u_verdict.is_available
    /\ u_outcome.info.creation_date.t = "list"
    /\ Len(u_outcome.info.creation_date.items) = 2
    /\ u_outcome.info.creation_date.items[1].t = "str"
    /\ u_verdict.year_registered = <<"1", "9", "9", "5">>

-----------------------------------------------------------------------------
(* Idempotence of the normalizer *)

\* C7, as stated: normalize(normalize(x)) = normalize(x) for every x.
C7_Idempotent == u_pc = "done" => u_norm2 = u_norm

\* What is left of x after lowercasing, trimming, and removing at most one
\* leading protocol and then at most one leading www.
C7_Rest(x) ==
    LET s == Strip(Lower(x))
        r == IF StartsWith(s, S_http) THEN Drop(s, 7)
             ELSE IF StartsWith(s, S_https) THEN Drop(s, 8)
             ELSE s
    IN  IF StartsWith(r, S_www) THEN Drop(r, 4) ELSE r

\* Nothing more to remove: no leading whitespace, protocol or www.
C7_Clean(r) ==
    /\ r = LStrip(r)
    /\ ~StartsWith(r, S_http)
    /\ ~StartsWith(r, S_https)
    /\ ~StartsWith(r, S_www)

\* C7, amended: normalize(normalize(x)) = normalize(x) exactly for the inputs x
\* that, once lowercased, trimmed and rid of one leading protocol and one
\* leading www., begin with no further whitespace, protocol or www.
C7_IdempotentOnSinglePrefix ==
    u_pc = "done" => ((u_norm2 = u_norm) <=> C7_Clean(C7_Rest(u_domain)))

\* An input that loses a protocol and a www. and is then stable
C7_Witness ==
    /\ u_pc = "done"
    /\ StartsWith(Lower(u_domain), S_http \o S_www)
    /\ C7_Clean(C7_Rest(u_domain))
    /\ u_norm = <<"a", ".", "c", "o", "m">>
    /\ u_norm2 = u_norm

-----------------------------------------------------------------------------
(* The batch loop *)

\* A lookup failure that does not say not found
C2_GenericFailure(outcome) ==
    /\ outcome.kind \in {"PywhoisError", "Exception"}
    /\ ~(outcome.kind = "PywhoisError" /\ C1_SaysNotFound(outcome.msg))

\* C2: whatever the lookups do, every iteration of the loop ends with one more
\* verdict, the verdict of its candidate; a lookup that raised a generic error is
\* recorded as not available with empty cost and empty year, and the loop goes
\* on; when the loop is over there are exactly N verdicts, in candidate order.
C2_BatchCompletes ==
    /\ pc = "loop" =>
          /\ Len(all_results) = idx
          /\ \A i \in 1..idx : all_results[i].domain = Normalize(domains_to_check[i])
          /\ (answer # NoAnswer /\ C2_GenericFailure(answer)) =>
                /\ ~all_results[idx].is_available
                /\ all_results[idx].minimum_cost = <<>>
                /\ all_results[idx].year_registered = <<>>
    /\ pc = "sort" =>
          /\ Len(all_results) = Len(domains_to_check)
          /\ \A i \in 1..Len(domains_to_check) :
                 all_results[i].domain = Normalize(domains_to_check[i])
    /\ pc \in {"print", "verbose", "done"} =>
          /\ Len(all_results) = Len(domains_to_check)
          /\ Len(available_domains) + Len(taken_domains) = Len(domains_to_check)

\* A generic failure on a candidate that is not the last: the loop goes on
C2_Witness ==
    /\ pc = "loop"
    /\ answer.kind = "Exception"
    /\ idx >= 2
    /\ idx < Len(domains_to_check)
    /\ all_results[1].is_available
    /\ ~all_results[idx].is_available

-----------------------------------------------------------------------------
(* The order of the sorted results *)

C3_Priced(v) == v.is_available /\ v.minimum_cost # <<>>

\* The numeric value of a price
C3_Price(v) ==
    CASE v.minimum_cost = <<"$", "1", "0">> -> 10
      [] v.minimum_cost = <<"$", "5", "0">> -> 50
      [] v.minimum_cost = <<"$", "2", "0", "0">> -> 200

\* Same priority and same price
C3_Tied(v, w) ==
    /\ v.is_available = w.is_available
    /\ C3_Priced(v) = C3_Priced(w)
    /\ C3_Priced(v) => C3_Price(v) = C3_Price(w)

\* C3: after the sort every available verdict precedes every taken one; among the
\* available ones the priced come in ascending numeric price and the unpriced
\* after all the priced; verdicts of equal priority and price are in
\* lexicographic order of the lowercased domain.
C3_SortedByKey ==
    pc \in {"print", "verbose", "done"} =>
        \A i, j \in 1..Len(all_results) :
            i < j =>
                LET v == all_results[i]
                    w == all_results[j]
                IN  /\ ~(~v.is_available /\ w.is_available)
                    /\ (C3_Priced(v) /\ C3_Priced(w)) => C3_Price(v) <= C3_Price(w)
                    /\ ~(v.is_available /\ ~C3_Priced(v) /\ C3_Priced(w))
                    /\ C3_Tied(v, w) => ~StrLess(Lower(w.domain), Lower(v.domain))

\* $10 before $50 before an unpriced available domain before a taken one
C3_Witness ==
    /\ pc = "done"
    /\ Len(all_results) = 4
    /\ all_results[1].minimum_cost = S_cost_com
    /\ all_results[2].minimum_cost = S_cost_io
    /\ all_results[3].is_available /\ all_results[3].minimum_cost = <<>>
    /\ ~all_results[4].is_available
    /\ EndsWith(all_results[4].domain, S_ai)

-----------------------------------------------------------------------------
(* The table and the footer *)

C4_Rows == SelectSeq(stdout, LAMBDA l : l.kind = "row")

C4_Available == SelectSeq(all_results, LAMBDA r : r.is_available)

\* C4: at the end of a run the table holds the available verdicts, in sorted
\* order, and no taken one; the footer reports the number of positional
\* arguments, the length of the expanded list and the number of available
\* verdicts, which is the number of rows.
C4_TableAndFooter ==
    pc \in {"verbose", "done"} =>
        /\ Len(C4_Rows) = Len(C4_Available)
        /\ \A i \in 1..Len(C4_Rows) : C4_Rows[i].text = format_result(C4_Available[i])
        /\ \A i \in 1..Len(C4_Rows) : \A j \in 1..Len(all_results) :
               ~all_results[j].is_available
                   => C4_Rows[i].text # format_result(all_results[j])
        /\ \E k \in 1..Len(stdout) :
               /\ stdout[k] = SummaryLine(Len(args), Len(domains_to_check), Len(C4_Rows))
               /\ \A m \in 1..Len(stdout) : stdout[m].kind = "summary" => m = k
               /\ \A m \in 1..Len(stdout) : stdout[m].kind = "row" => m < k

\* Two rows and a taken domain left out, 2 provided and 4 checked
C4_Witness ==
    /\ pc = "done"
    /\ Len(args) = 2
    /\ Len(domains_to_check) = 4
    /\ Len(C4_Rows) = 2
    /\ Len(taken_domains) = 2

-----------------------------------------------------------------------------
(* The expander *)

\* The number of .com entries before entry i
C5_ComsBefore(i) == Cardinality({j \in 1..(i - 1) : EndsWith(args[j], <<".", "c", "o", "m">>)})

\* Where entry i of the input stands in the expanded list
C5_Place(i) == i + 2 * C5_ComsBefore(i)

\* C5: the expanded list holds each entry in its original order, each entry
\* ending in .com immediately followed by its .ai and then its .io sibling with
\* the same base name, and nothing else: its length is the input length plus
\* twice the number of .com entries.
C5_Expansion ==
    pc \notin {"start", "expand"} =>
        /\ Len(domains_to_check) = C5_Place(Len(args) + 1) - 1
        /\ \A i \in 1..Len(args) :
               LET at == C5_Place(i)
                   base == SubSeq(args[i], 1, Len(args[i]) - 4)
               IN  /\ domains_to_check[at] = args[i]
                   /\ EndsWith(args[i], <<".", "c", "o", "m">>) =>
                          /\ domains_to_check[at + 1] = base \o <<".", "a", "i">>
                          /\ domains_to_check[at + 2] = base \o <<".", "i", "o">>
                          /\ C5_Place(i + 1) = at + 3
                   /\ ~EndsWith(args[i], <<".", "c", "o", "m">>) => C5_Place(i + 1) = at + 1

\* A .com entry followed by another entry
C5_Witness ==
    /\ pc = "loop"
    /\ Len(args) = 2
    /\ EndsWith(args[1], S_com)
    /\ ~EndsWith(args[2], S_com)
    /\ Len(domains_to_check) = 4
    /\ domains_to_check[4] = args[2]

-----------------------------------------------------------------------------
(* Sequential processing *)

C8_Printed(kinds) == \E k \in 1..Len(stdout) : stdout[k].kind \in kinds

\* C8: the lookups are issued in the order of the expanded list, one per
\* candidate, at most one outstanding; the verdict of a candidate is appended
\* before the next lookup is issued; no row and no summary is printed before the
\* verdict of the last candidate is in.
C8_Sequential ==
    /\ pending \in {0, 1}
    /\ pending = 1 <=> pc = "whois"
    /\ Len(lookups) = idx
    /\ idx <= Len(domains_to_check)
    /\ \A i \in 1..Len(lookups) : lookups[i] = Normalize(domains_to_check[i])
    /\ Len(all_results) = idx - pending
    /\ pc \in {"sort", "print", "verbose", "done"} => idx = Len(domains_to_check)
    /\ C8_Printed({"row", "summary"}) =>
          /\ pending = 0
          /\ pc \in {"verbose", "done"}
          /\ Len(all_results) = Len(domains_to_check)
          /\ Len(lookups) = Len(domains_to_check)

\* The third lookup outstanding, two verdicts in, nothing of the table printed
C8_Witness ==
    /\ pc = "whois"
    /\ pending = 1
    /\ idx = 3
    /\ Len(all_results) = 2
    /\ ~C8_Printed({"row", "summary"})

-----------------------------------------------------------------------------
(* The table does not depend on the processing order *)

C9_Permuted(f) == [i \in 1..Len(p_cands) |-> p_cands[f[i]]]

\* C9: for every permutation of the candidate list, with the same lookup outcome
\* per domain, the rows of the table are the same sequence.
C9_OrderIndependent ==
    p_pc = "done" =>
        \A f \in Permutations(1..Len(p_cands)) :
            RenderBatch(C9_Permuted(f), p_registry) = p_rows

\* Rows that the sort has put in another order than the candidates were processed in
C9_Witness ==
    /\ p_pc = "done"
    /\ Len(p_rows) >= 2
    /\ p_rows # TableRows(CollectResults(p_cands, p_registry))

=============================================================================
